---- MODULE Spec2Model ----
(***************************************************************************)
(* Model of index.js: the lead deduplicator.  One run of the script is a   *)
(* state machine: the argument checks, the load of `leads`, the forEach    *)
(* dedup loop over `records`, the two async writers started by Promise.all *)
(* and the `then` callback that prints the final report.                   *)
(*                                                                         *)
(* A JS object is a sequence of <<key, value>> pairs in insertion order.   *)
(* All values are strings (as in the JSON data the script is fed); the     *)
(* JS value `undefined` is the sentinel Undefined.                         *)
(***************************************************************************)
EXTENDS Integers, Sequences, FiniteSets, TLC

\* Largest length of the `leads` array that is explored.
MaxLeads == 3

\* ------------------------------------------------------------------------
\* JS values and objects

Undefined == "<undefined>"

\* Date.prototype.getTime() of an invalid date
NaN == -1

Has(obj, key) == \E i \in 1..Len(obj) : obj[i][1] = key

\* obj[key]: undefined when the property is missing
Get(obj, key) ==
  IF Has(obj, key)
    THEN LET i == CHOOSE j \in 1..Len(obj) : obj[j][1] = key IN obj[i][2]
    ELSE Undefined

\* obj[key] = val: an existing property keeps its position, a new one goes last
Put(obj, key, val) ==
  IF Has(obj, key)
    THEN [i \in 1..Len(obj) |-> IF obj[i][1] = key THEN <<key, val>> ELSE obj[i]]
    ELSE Append(obj, <<key, val>>)

Keys(obj) == {obj[i][1] : i \in 1..Len(obj)}

\* `${v}`
Str(v) == IF v = Undefined THEN "undefined" ELSE v

\* JSON.stringify drops the properties whose value is undefined
Stringify(obj) == SelectSeq(obj, LAMBDA p : p[2] # Undefined)

\* new Date(s).getTime(), on the entryDate strings of the model: two instants,
\* one of them written in two time zones, and a string that is no date
GetTime(s) ==
  CASE s = "2014-05-07T17:30:20+00:00" -> 1
    [] s = "2014-05-07T17:32:20+00:00" -> 2
    [] s = "2014-05-07T19:32:20+02:00" -> 2
    [] OTHER -> NaN

\* incomingDate >= originalDate: false when either side is NaN
AlwaysAccept(incomingDate, originalDate) == TRUE

NumberGeq(incomingDate, originalDate) == incomingDate >= originalDate

DateLeq(incomingDate, originalDate) ==
  /\ incomingDate # NaN
  /\ originalDate # NaN
  /\ incomingDate <= originalDate

DateGeq(incomingDate, originalDate) ==
  /\ incomingDate # NaN
  /\ originalDate # NaN
  /\ incomingDate >= originalDate

\* ------------------------------------------------------------------------
\* The inputs: field maps as JSON.parse gives them (no undefined values)

D1  == "2014-05-07T17:30:20+00:00"
D2  == "2014-05-07T17:32:20+00:00"
D2z == "2014-05-07T19:32:20+02:00"

\* A lead with the given fields; a field given as Undefined is left out
MkLead(id, email, name, date) ==
  SelectSeq(<< <<"_id", id>>, <<"email", email>>,
               <<"name", name>>, <<"entryDate", date>> >>,
            LAMBDA p : p[2] # Undefined)

\* Leads with every field: two ids, two emails, an earlier and a later entry
FullLeads ==
  {MkLead(id, email, nd[1], nd[2]) :
     id \in {"1", "2"}, email \in {"a@x.com", "b@x.com"},
     nd \in {<<"Al", D1>>, <<"Bob", D2>>}}

\* Leads that lack fields, repeat an instant in another time zone, or carry
\* an entryDate that is no date; {} is the lead without any field
PartialLeads ==
  { MkLead("1", "a@x.com", Undefined, D1),
    MkLead("1", "a@x.com", "Al", D2z),
    MkLead("1", "b@x.com", "Al", "soon"),
    MkLead("2", "a@x.com", "Bob", Undefined),
    MkLead(Undefined, "a@x.com", "Al", D2),
    MkLead(Undefined, "b@x.com", "Bob", D1),
    MkLead("1", Undefined, "Bob", D2),
    MkLead("2", Undefined, "Al", D1),
    MkLead(Undefined, Undefined, "Al", D1),
    MkLead(Undefined, Undefined, Undefined, Undefined) }

Leads == FullLeads \cup PartialLeads

\* ------------------------------------------------------------------------
\* The dedup loop (leads.forEach)

\* records.findIndex(([record]) => lead._id === record._id ||
\*                                 lead.email === record.email)
\* 0 stands for JS's -1; the indices are 1-based
MatchesPresent(lead, record) ==
  \/ Get(lead, "_id") # Undefined /\ Get(lead, "_id") = Get(record, "_id")
  \/ Get(lead, "email") # Undefined /\ Get(lead, "email") = Get(record, "email")

Matches(lead, record) ==
  \/ Get(lead, "_id") = Get(record, "_id")
  \/ Get(lead, "email") = Get(record, "email")

FindLastIndex(recs, lead) ==
  IF \E i \in 1..Len(recs) : Matches(lead, recs[i][1])
    THEN CHOOSE i \in 1..Len(recs) :
           /\ Matches(lead, recs[i][1])
           /\ \A j \in (i + 1)..Len(recs) : ~Matches(lead, recs[j][1])
    ELSE 0

FindIndex(recs, lead) ==
  IF \E i \in 1..Len(recs) : Matches(lead, recs[i][1])
    THEN CHOOSE i \in 1..Len(recs) :
           /\ Matches(lead, recs[i][1])
           /\ \A j \in 1..(i - 1) : ~Matches(lead, recs[j][1])
    ELSE 0

\* newData = {...lead, _id: dupedId ? original._id : lead._id,
\*                     email: dupedEmail ? original.email : lead.email}
SwappedNewData(original, lead) ==
  LET dupedId    == Get(original, "_id") = Get(lead, "_id")
      dupedEmail == Get(original, "email") = Get(lead, "email")
  IN Put(Put(lead, "_id", IF dupedId THEN Get(lead, "_id")
                                     ELSE Get(original, "_id")),
         "email", IF dupedEmail THEN Get(lead, "email")
                                ELSE Get(original, "email"))

NewData(original, lead) ==
  LET dupedId    == Get(original, "_id") = Get(lead, "_id")
      dupedEmail == Get(original, "email") = Get(lead, "email")
  IN Put(Put(lead, "_id", IF dupedId THEN Get(original, "_id")
                                     ELSE Get(lead, "_id")),
         "email", IF dupedEmail THEN Get(original, "email")
                                ELSE Get(lead, "email"))

\* Object.entries(original).reduce(...): the previous value of every property
\* of original that newData does not repeat
ChangedNewValues(original, newData) ==
  LET diff == SelectSeq(original, LAMBDA p : Get(newData, p[1]) # p[2])
  IN [i \in 1..Len(diff) |-> <<diff[i][1], Get(newData, diff[i][1])>>]

Changed(original, newData) ==
  SelectSeq(original, LAMBDA p : Get(newData, p[1]) # p[2])

\* changes.unshift(changed)
PushBack(seq, elem) == Append(seq, elem)

Unshift(seq, elem) == <<elem>> \o seq

\* records.push(elem)
PushFront(seq, elem) == <<elem>> \o seq

Push(seq, elem) == Append(seq, elem)

\* Whether the matched record takes the lead
Accepted(original, lead) ==
  DateGeq(GetTime(Get(lead, "entryDate")), GetTime(Get(original, "entryDate")))

\* One call of the forEach callback: records after the lead
DedupeLead(recs, lead) ==
  LET existingIndex == FindIndex(recs, lead) IN
  IF existingIndex > 0
    THEN LET original == recs[existingIndex][1]
             newData  == NewData(original, lead)
             changed  == Changed(original, newData)
         IN IF Accepted(original, lead)
              THEN [recs EXCEPT ![existingIndex] =
                      <<newData, Unshift(recs[existingIndex][2], changed)>>]
              ELSE recs
    ELSE Push(recs, <<lead, <<>>>>)

\* The whole loop over an array of leads
RECURSIVE DedupeFrom(_, _)
DedupeFrom(recs, leads) ==
  IF leads = <<>> THEN recs
  ELSE DedupeFrom(DedupeLead(recs, Head(leads)), Tail(leads))

\* ------------------------------------------------------------------------
\* The changelog (writeLog)

\* `${changedVal} ==> ${data[changedProp]}`
ChainAppended(changedVal, current) == Str(current) \o " ==> " \o Str(changedVal)

Chain(changedVal, current) == Str(changedVal) \o " ==> " \o Str(current)

\* Object.entries(change).forEach(([changedProp, changedVal]) => ...)
RECURSIVE ApplyChange(_, _)
ApplyChange(data, change) ==
  IF change = <<>> THEN data
  ELSE LET changedProp == Head(change)[1]
           changedVal  == Head(change)[2]
       IN ApplyChange(Put(data, changedProp,
                          Chain(changedVal, Get(data, changedProp))),
                      Tail(change))

\* changes.forEach(change => ...): data as writeLog leaves it
RECURSIVE ApplyChanges(_, _)
ApplyChanges(data, changes) ==
  IF changes = <<>> THEN data
  ELSE ApplyChanges(ApplyChange(data, Head(changes)), Tail(changes))

\* Object.getOwnPropertyNames(data).sort(longest first)[0].length;
\* on an object without properties [0] is undefined and .length throws
RECURSIVE LongestPropLength(_)
LongestPropLength(data) ==
  IF Len(data) = 1 THEN Len(data[1][1])
  ELSE LET rest == LongestPropLength(Tail(data))
       IN IF Len(data[1][1]) > rest THEN Len(data[1][1]) ELSE rest

RECURSIVE PadStart(_, _)
PadStart(key, width) ==
  IF Len(key) >= width THEN key ELSE PadStart(" " \o key, width)

\* The pieces `fullLog +=` adds for one record's data
Block(data) ==
  [i \in 1..Len(data) |->
     PadStart(data[i][1], LongestPropLength(data))
       \o ": " \o Str(data[i][2]) \o "\n"]

\* fullLog as the sequence of the pieces added to it
RECURSIVE FullLog(_, _)
FullLog(recs, i) ==
  IF i > Len(recs) THEN <<>>
  ELSE (IF i > 1 THEN <<"\n">> ELSE <<>>)
         \o Block(recs[i][1]) \o FullLog(recs, i + 1)

\* The first record at which records.forEach throws (0: none does)
ThrowsAt(recs) ==
  IF \E i \in 1..Len(recs) : ApplyChanges(recs[i][1], recs[i][2]) = <<>>
    THEN CHOOSE i \in 1..Len(recs) :
           /\ ApplyChanges(recs[i][1], recs[i][2]) = <<>>
           /\ \A j \in 1..(i - 1) : ApplyChanges(recs[j][1], recs[j][2]) # <<>>
    ELSE 0

\* records after the loop of writeLog: it rewrites data in place, up to
\* the record at which it throws
RecordsAfterLog(recs) ==
  LET t == ThrowsAt(recs) IN
  [i \in 1..Len(recs) |->
     IF t = 0 \/ i <= t
       THEN <<ApplyChanges(recs[i][1], recs[i][2]), recs[i][2]>>
       ELSE recs[i]]

\* records.map(record => record[0]) as JSON.stringify writes it
RecordsWithoutChanges(recs) == [i \in 1..Len(recs) |-> Stringify(recs[i][1])]

\* ------------------------------------------------------------------------
\* The run

\* The files that exist when the script starts
ExistingPaths == {"./leads.json"}

\* fs.existsSync(path)
ExistsAnyway(path) == TRUE

ExistsSync(path) == path \in ExistingPaths

\* process.argv[2]
SourcePaths == {Undefined, "./nofile.json", "./leads.json"}

\* Promise.all([writeRecords(records), writeLog(records)]): the calls are
\* made in the order of the array
LogFirst == <<"writeLog", "writeRecords">>

StartOrder == <<"writeRecords", "writeLog">>

VARIABLES
  pc,          \* "start", "checkExists", "load", "dedupe", "output", "exited"
  sourcePath,  \* process.argv[2]
  nLeads,      \* leads.length
  idx,         \* number of leads the forEach has handed to its callback
  lead,        \* the lead of the last callback
  existing,    \* existingIndex in the last callback (0 for JS's -1)
  records,     \* sequence of <<data, changes>>
  origin,      \* history: for each record the lead that created it
  latest,      \* history: for each record the latest parsed entryDate of
               \* the leads created as, merged into or discarded against it
  reconciled,  \* history: records as the dedup loop left them
  started,     \* number of entries of the Promise.all array evaluated
  wr,          \* writeRecords: "idle", "pending", "ok", "err"
  wl,          \* writeLog: "idle", "pending", "ok", "err", "threw"
  json,        \* the text writeRecords hands to writeFile
  fullLog,     \* the text writeLog hands to writeFile
  files,       \* deduped.json and deduped.log: <<>> while the file does
               \* not exist, <<content>> once it is written
  exitCode,    \* process.exitCode
  exitStatus,  \* "running", or the status the process ended with
  report,      \* what the then callback printed: "none", "success", "errors"
  stderr,      \* the errors printed with console.error
  rejection    \* the promise of Promise.all: "none", "unhandled", "warned"

vars == <<pc, sourcePath, nLeads, idx, lead, existing, records, origin, latest,
          reconciled,
          started, wr, wl, json, fullLog, files, exitCode, exitStatus,
          report, stderr, rejection>>

Init ==
  /\ pc = "start"
  /\ sourcePath \in SourcePaths
  /\ nLeads = 0
  /\ idx = 0
  /\ lead = <<>>
  /\ existing = 0
  /\ records = <<>>
  /\ origin = <<>>
  /\ latest = <<>>
  /\ reconciled = <<>>
  /\ started = 0
  /\ wr = "idle"
  /\ wl = "idle"
  /\ json = <<>>
  /\ fullLog = <<>>
  /\ files = [deduped |-> <<>>, log |-> <<>>]
  /\ exitCode = 0
  /\ exitStatus = "running"
  /\ report = "none"
  /\ stderr = {}
  /\ rejection = "none"

\* if (sourcePath === undefined) { ...; process.exit(1) }
CheckArg ==
  /\ pc = "start"
  /\ IF sourcePath = Undefined
       THEN /\ pc' = "exited"
            /\ exitStatus' = "1"
            /\ stderr' = stderr \cup {"No file path provided"}
       ELSE /\ pc' = "checkExists"
            /\ UNCHANGED <<exitStatus, stderr>>
  /\ UNCHANGED <<sourcePath, nLeads, idx, lead, existing, records, origin, latest, reconciled,
                 started, wr, wl, json, fullLog, files, exitCode, report,
                 rejection>>

\* if (!fs.existsSync(sourcePath)) { ...; process.exit(1) }
CheckExists ==
  /\ pc = "checkExists"
  /\ IF ~ExistsSync(sourcePath)
       THEN /\ pc' = "exited"
            /\ exitStatus' = "1"
            /\ stderr' = stderr \cup {"Cannot find file"}
       ELSE /\ pc' = "load"
            /\ UNCHANGED <<exitStatus, stderr>>
  /\ UNCHANGED <<sourcePath, nLeads, idx, lead, existing, records, origin, latest, reconciled,
                 started, wr, wl, json, fullLog, files, exitCode, report,
                 rejection>>

\* const leads = require(sourcePath).leads; let records = [];
\* the elements of leads are drawn when the forEach reaches them
Load ==
  /\ pc = "load"
  /\ \E n \in 0..MaxLeads :
       /\ nLeads' = n
       /\ pc' = IF n = 0 THEN "output" ELSE "dedupe"
       /\ reconciled' = IF n = 0 THEN records ELSE reconciled
  /\ records' = <<>>
  /\ UNCHANGED <<sourcePath, idx, lead, existing, origin, latest, started, wr, wl, json,
                 fullLog, files, exitCode, exitStatus, report, stderr,
                 rejection>>

\* leads.forEach(lead => { ... }): one call of the callback
Dedupe ==
  /\ pc = "dedupe"
  /\ idx < nLeads
  /\ \E l \in Leads :
       /\ lead' = l
       /\ existing' = FindIndex(records, l)
       /\ records' = DedupeLead(records, l)
       /\ origin' = IF FindIndex(records, l) = 0
                      THEN Push(origin, <<idx + 1, l>>)
                      ELSE origin
       /\ latest' =
            LET incomingDate == GetTime(Get(l, "entryDate"))
                i == FindIndex(records, l)
            IN IF i = 0
                 THEN Push(latest, incomingDate)
                 ELSE [latest EXCEPT
                         ![i] = IF incomingDate > @ THEN incomingDate ELSE @]
  /\ idx' = idx + 1
  /\ pc' = IF idx' = nLeads THEN "output" ELSE "dedupe"
  /\ reconciled' = IF idx' = nLeads THEN records' ELSE reconciled
  /\ UNCHANGED <<sourcePath, nLeads, started, wr, wl, json, fullLog, files,
                 exitCode, exitStatus, report, stderr, rejection>>

\* writeRecords(records) up to its await: the text is built before
\* writeFile is called
WriteRecordsCall ==
  /\ pc = "output"
  /\ started < 2
  /\ StartOrder[started + 1] = "writeRecords"
  /\ started' = started + 1
  /\ json' = RecordsWithoutChanges(records)
  /\ wr' = "pending"
  /\ UNCHANGED <<pc, sourcePath, nLeads, idx, lead, existing, records, origin, latest,
                 reconciled, wl, fullLog, files, exitCode, exitStatus, report,
                 stderr, rejection>>

\* writeLog(records) up to its await, or up to the TypeError of
\* longestPropLength, which rejects its promise and with it Promise.all's
WriteLogCall ==
  /\ pc = "output"
  /\ started < 2
  /\ StartOrder[started + 1] = "writeLog"
  /\ started' = started + 1
  /\ records' = RecordsAfterLog(records)
  /\ IF ThrowsAt(records) = 0
       THEN /\ fullLog' = FullLog(records', 1)
            /\ wl' = "pending"
            /\ UNCHANGED rejection
       ELSE /\ wl' = "threw"
            /\ rejection' = "unhandled"
            /\ UNCHANGED fullLog
  /\ UNCHANGED <<pc, sourcePath, nLeads, idx, lead, existing, origin, latest, reconciled, wr,
                 json, files, exitCode, exitStatus, report, stderr>>

\* await writeFile(destinationPath, ...) settles: return true, or the catch.
\* A callback runs only after the script itself has run to its end (both
\* calls are made) and after a rejection without handler has been dealt with.
WriteRecordsSettle ==
  /\ pc = "output"
  /\ started = 2
  /\ rejection # "unhandled"
  /\ wr = "pending"
  /\ \E ok \in BOOLEAN :
       IF ok
         THEN /\ wr' = "ok"
              /\ files' = [files EXCEPT !.deduped = <<json>>]
              /\ UNCHANGED <<stderr, exitCode>>
         ELSE /\ wr' = "err"
              /\ stderr' = stderr \cup {"Error writing deduplicated data"}
              /\ exitCode' = 1
              /\ UNCHANGED files
  /\ UNCHANGED <<pc, sourcePath, nLeads, idx, lead, existing, records, origin, latest,
                 reconciled, started, wl, json, fullLog, exitStatus, report,
                 rejection>>

\* await writeFile(changelogPath, fullLog) settles: return true, or the catch
WriteLogSettle ==
  /\ pc = "output"
  /\ started = 2
  /\ rejection # "unhandled"
  /\ wl = "pending"
  /\ \E ok \in BOOLEAN :
       IF ok
         THEN /\ wl' = "ok"
              /\ files' = [files EXCEPT !.log = <<fullLog>>]
              /\ UNCHANGED <<stderr, exitCode>>
         ELSE /\ wl' = "err"
              /\ stderr' = stderr \cup {"Error writing changelog"}
              /\ exitCode' = 1
              /\ UNCHANGED files
  /\ UNCHANGED <<pc, sourcePath, nLeads, idx, lead, existing, records, origin, latest,
                 reconciled, started, wr, json, fullLog, exitStatus, report,
                 rejection>>

\* Promise.all([...]) is fulfilled once every promise of the array is; the
\* two async functions fulfil theirs with true or with the caught error
AnyFulfilled == wr \in {"ok", "err"} \/ wl \in {"ok", "err"}

AllFulfilled == wr \in {"ok", "err"} /\ wl \in {"ok", "err"}

\* .then(results => { ... }): runs once both promises are fulfilled
Then ==
  /\ pc = "output"
  /\ started = 2
  /\ AllFulfilled
  /\ report = "none"
  /\ LET hasErrors == wr # "ok" \/ wl # "ok"
     IN report' = IF hasErrors THEN "errors" ELSE "success"
  /\ UNCHANGED <<pc, sourcePath, nLeads, idx, lead, existing, records, origin, latest,
                 reconciled, started, wr, wl, json, fullLog, files, exitCode,
                 exitStatus, stderr, rejection>>

\* The rejected promise of Promise.all has no handler.  Depending on the
\* Node version the process only warns, or it ends at once with status 1
\* while the write of deduped.json is still in flight (the file may or may
\* not have been written by then).
UnhandledRejection ==
  /\ pc = "output"
  /\ started = 2
  /\ rejection = "unhandled"
  /\ \/ /\ rejection' = "warned"
        /\ UNCHANGED <<pc, exitStatus, files>>
     \/ /\ rejection' = "unhandled"
        /\ pc' = "exited"
        /\ exitStatus' = "1"
        /\ \E landed \in BOOLEAN :
             files' = IF landed /\ wr = "pending"
                        THEN [files EXCEPT !.deduped = <<json>>]
                        ELSE files
  /\ UNCHANGED <<sourcePath, nLeads, idx, lead, existing, records, origin, latest, reconciled,
                 started, wr, wl, json, fullLog, exitCode, report, stderr>>

\* Nothing is pending any more: the process ends with process.exitCode
Exit ==
  /\ pc = "output"
  /\ started = 2
  /\ wr \in {"ok", "err"}
  /\ \/ wl \in {"ok", "err"} /\ report # "none"
     \/ wl = "threw" /\ rejection = "warned"
  /\ pc' = "exited"
  /\ exitStatus' = IF exitCode = 0 THEN "0" ELSE "1"
  /\ UNCHANGED <<sourcePath, nLeads, idx, lead, existing, records, origin, latest, reconciled,
                 started, wr, wl, json, fullLog, files, exitCode, report,
                 stderr, rejection>>

Next ==
  \/ CheckArg
  \/ CheckExists
  \/ Load
  \/ Dedupe
  \/ WriteRecordsCall
  \/ WriteLogCall
  \/ WriteRecordsSettle
  \/ WriteLogSettle
  \/ Then
  \/ UnhandledRejection
  \/ Exit

Spec == Init /\ [][Next]_vars

\* The event loop runs the callback of every writeFile that was started, and
\* the reaction of a fulfilled promise
FairSpec ==
  /\ Init /\ [][Next]_vars
  /\ WF_vars(WriteRecordsSettle)
  /\ WF_vars(WriteLogSettle)
  /\ WF_vars(Then)

\* ------------------------------------------------------------------------
\* Properties

\* The dedup loop has run to its end
Deduped == pc = "output" \/ (pc = "exited" /\ started = 2)

\* writeLog has not touched records yet
BeforeLog == wl = "idle"

\* The step is a call of the forEach callback
DedupeStep == pc = "dedupe" /\ idx' = idx + 1

\* C1: after the dedup loop no two records carry the same id and no two
\* records carry the same email (values that are present).
C1_NoSharedKey ==
  Deduped =>
    \A i, j \in 1..Len(reconciled) :
      i < j =>
        /\ Get(reconciled[i][1], "_id") # Undefined
             => Get(reconciled[i][1], "_id") # Get(reconciled[j][1], "_id")
        /\ Get(reconciled[i][1], "email") # Undefined
             => Get(reconciled[i][1], "email") # Get(reconciled[j][1], "email")

\* The lead matches a record and its entryDate is strictly earlier than the
\* entryDate of the first record it matches
IsStale(recs, l) ==
  /\ FindIndex(recs, l) > 0
  /\ LET original     == recs[FindIndex(recs, l)][1]
         originalDate == GetTime(Get(original, "entryDate"))
         incomingDate == GetTime(Get(l, "entryDate"))
     IN /\ originalDate # NaN
        /\ incomingDate # NaN
        /\ incomingDate < originalDate

\* C2: a matching lead with a strictly earlier entryDate changes nothing:
\* same records, same data, same change-sets, no record appended.
C2_StaleDiscarded ==
  [][(DedupeStep /\ IsStale(records, lead')) => records' = records]_vars

\* A stale lead has just been discarded
C2_Witness ==
  /\ pc = "dedupe"
  /\ idx > 0
  /\ existing > 0
  /\ IsStale(records, lead)
  /\ existing = FindIndex(records, lead)

\* The lead matches a record and its entryDate is that record's or later
IsNewer(recs, l) ==
  /\ FindIndex(recs, l) > 0
  /\ LET original     == recs[FindIndex(recs, l)][1]
         originalDate == GetTime(Get(original, "entryDate"))
         incomingDate == GetTime(Get(l, "entryDate"))
     IN /\ originalDate # NaN
        /\ incomingDate # NaN
        /\ incomingDate >= originalDate

IdentityKeys == {"_id", "email"}

\* C3: a matching lead with a later or equal entryDate becomes the record's
\* data, except that an identity key that matched keeps the record's value;
\* an identity key that did not match takes the lead's value.
C3_MergedData ==
  [][(DedupeStep /\ IsNewer(records, lead')) =>
       LET i        == FindIndex(records, lead')
           original == records[i][1]
           newData  == records'[i][1]
       IN /\ Keys(newData) = Keys(lead') \cup IdentityKeys
          /\ \A k \in Keys(newData) :
               Get(newData, k) =
                 IF k \in IdentityKeys /\ Get(original, k) = Get(lead', k)
                   THEN Get(original, k)
                   ELSE Get(lead', k)]_vars

\* A merge on a tie of entryDate that matched on the id alone has just
\* given the record the email of the lead
C3_Witness ==
  /\ pc = "dedupe"
  /\ existing > 0
  /\ GetTime(Get(lead, "entryDate")) # NaN
  /\ Get(records[existing][1], "entryDate") = Get(lead, "entryDate")
  /\ Len(records[existing][2]) > 0
  /\ Has(Head(records[existing][2]), "email")
  /\ ~Has(Head(records[existing][2]), "_id")
  /\ ~Has(Head(records[existing][2]), "entryDate")
  /\ Get(records[existing][1], "email") = Get(lead, "email")

\* A change-set applied as a reverse delta
RECURSIVE Revert(_, _)
Revert(data, change) ==
  IF change = <<>> THEN data
  ELSE Revert(Put(data, Head(change)[1], Head(change)[2]), Tail(change))

\* The change-sets applied from the front (most recent) to the back
RECURSIVE RevertAll(_, _)
RevertAll(data, changes) ==
  IF changes = <<>> THEN data
  ELSE RevertAll(Revert(data, Head(changes)), Tail(changes))

\* The same fields with the same values
SameFields(a, b) == \A k \in Keys(a) \cup Keys(b) : Get(a, k) = Get(b, k)

\* C4 as stated: reverting every change-set gives exactly the field map of
\* the lead that created the record.
C4_RevertGivesCreation ==
  BeforeLog =>
    \A i \in 1..Len(records) :
      SameFields(RevertAll(records[i][1], records[i][2]), origin[i][2])

\* C4 amended: reverting every change-set gives every field of the creating
\* lead its creation-time value (fields first brought by a merged lead stay).
C4_RevertRestoresCreationFields ==
  BeforeLog =>
    \A i \in 1..Len(records) :
      LET reverted == RevertAll(records[i][1], records[i][2])
      IN \A k \in Keys(origin[i][2]) :
           Get(reverted, k) = Get(origin[i][2], k)

\* A record merged twice whose data has a field its creating lead lacked and
\* whose creating lead's name was overwritten
C4_Witness ==
  /\ BeforeLog
  /\ \E i \in 1..Len(records) :
       /\ Len(records[i][2]) >= 2
       /\ Keys(records[i][1]) \ Keys(origin[i][2]) # {}
       /\ Has(origin[i][2], "name")
       /\ Get(records[i][1], "name") # Get(origin[i][2], "name")

\* C5: the dedup loop run again on the deduplicated output gives that output.
C5_Idempotent ==
  Deduped =>
    LET output == RecordsWithoutChanges(reconciled)
    IN RecordsWithoutChanges(DedupeFrom(<<>>, output)) = output

C7_DedupedIsReconciled ==
  /\ wr # "idle" => json = RecordsWithoutChanges(reconciled)
  /\ files.deduped # <<>> =>
       files.deduped[1] = RecordsWithoutChanges(reconciled)

\* deduped.json is written after writeLog has rewritten a record's data and
\* after deduped.log was written
C7_Witness ==
  /\ files.deduped # <<>>
  /\ files.log # <<>>
  /\ wr = "ok"
  /\ \E i \in 1..Len(records) : records[i][1] # reconciled[i][1]

\* C8: both writes are attempted, the exit status is non-zero exactly when a
\* write failed, and success is reported only when both writes succeeded.
C8_BothWritesAttempted ==
  (pc = "exited" /\ started = 2) =>
    /\ wr \in {"ok", "err"}
    /\ wl \in {"ok", "err"}
    /\ exitStatus # "0" <=> (wr = "err" \/ wl = "err")
    /\ report = "success" => (wr = "ok" /\ wl = "ok")

\* The recorded previous values of a field, oldest first
RECURSIVE OldestFirst(_, _)
OldestFirst(changes, k) ==
  IF changes = <<>> THEN <<>>
  ELSE OldestFirst(Tail(changes), k)
         \o (IF Has(Head(changes), k) THEN <<Get(Head(changes), k)>> ELSE <<>>)

RECURSIVE Joined(_)
Joined(values) ==
  IF Len(values) = 1 THEN Str(values[1])
  ELSE Str(values[1]) \o " ==> " \o Joined(Tail(values))

RECURSIVE FieldCount(_, _)
FieldCount(recs, i) ==
  IF i > Len(recs) THEN 0 ELSE Len(recs[i][1]) + FieldCount(recs, i + 1)

\* C9: a field with recorded changes is rendered as its previous values,
\* oldest first, then its current value, joined by " ==> "; a field without
\* recorded changes is rendered as it is; every field of the data gets a line.
C9_Chains ==
  wl \in {"pending", "ok", "err"} =>
    /\ \A i \in 1..Len(reconciled) :
         LET data    == reconciled[i][1]
             changes == reconciled[i][2]
             shown   == records[i][1]
         IN /\ Keys(data) \subseteq Keys(shown)
            /\ \A k \in Keys(shown) :
                 Get(shown, k) =
                   IF OldestFirst(changes, k) = <<>>
                     THEN Get(data, k)
                     ELSE Joined(OldestFirst(changes, k) \o <<Get(data, k)>>)
    /\ Len(fullLog) >= FieldCount(reconciled, 1)
    /\ Len(fullLog) = FieldCount(records, 1)
                        + (IF Len(records) > 0 THEN Len(records) - 1 ELSE 0)

\* The log is rendered for a record with a field changed twice, a field
\* changed once and a field never changed
C9_Witness ==
  /\ wl \in {"pending", "ok", "err"}
  /\ \E i \in 1..Len(reconciled) :
       \E k1, k2, k3 \in Keys(reconciled[i][1]) :
         /\ Len(OldestFirst(reconciled[i][2], k1)) = 2
         /\ Len(OldestFirst(reconciled[i][2], k2)) = 1
         /\ Len(OldestFirst(reconciled[i][2], k3)) = 0

\* C10: writeLog leaves the records as the dedup loop left them, and
\* rendering them again gives the same log.
C10_RenderIsPure ==
  wl \in {"pending", "ok", "err"} =>
    /\ records = reconciled
    /\ FullLog(RecordsAfterLog(records), 1) = fullLog

\* C11: a record whose data has no field is rendered without failure: writeLog
\* does not throw, and both writes run to their end.
C11_EmptyRecordRenders ==
  (started = 2 /\ \E i \in 1..Len(reconciled) : reconciled[i][1] = <<>>) =>
    /\ wl # "threw"
    /\ rejection = "none"
    /\ pc = "exited" => (wr \in {"ok", "err"} /\ wl \in {"ok", "err"})

\* C12: when the path argument is missing or names no file, the process ends
\* with status 1 before leads is loaded, before the dedup loop and before
\* either write is started.
C12_BadPathExitsEarly ==
  (sourcePath = Undefined \/ sourcePath \notin ExistingPaths) =>
    /\ pc \in {"start", "checkExists", "exited"}
    /\ pc = "checkExists" => sourcePath # Undefined
    /\ pc = "exited" => exitStatus = "1"
    /\ nLeads = 0 /\ idx = 0 /\ records = <<>>
    /\ started = 0 /\ wr = "idle" /\ wl = "idle"
    /\ files = [deduped |-> <<>>, log |-> <<>>]

\* The run given a path that names no file has ended
C12_Witness ==
  /\ pc = "exited"
  /\ sourcePath = "./nofile.json"
  /\ exitStatus = "1"
  /\ stderr = {"Cannot find file"}

\* The lead's id differs from every record's id and its email from every
\* record's email
MatchesNone(recs, l) ==
  \A i \in 1..Len(recs) :
    /\ Get(l, "_id") # Get(recs[i][1], "_id")
    /\ Get(l, "email") # Get(recs[i][1], "email")

\* C13: a lead that matches no record appends exactly one record, with the
\* lead as its data and no change-set, and leaves every other record as it is.
C13_NoMatchAppends ==
  [][(DedupeStep /\ MatchesNone(records, lead')) =>
       /\ Len(records') = Len(records) + 1
       /\ records'[Len(records')] = <<lead', <<>>>>
       /\ \A i \in 1..Len(records) : records'[i] = records[i]]_vars

\* A lead that matches no record has just become the second record, after
\* the first one took a merge
C13_Witness ==
  /\ pc = "output"
  /\ BeforeLog
  /\ existing = 0
  /\ Len(records) = 2
  /\ Len(records[1][2]) = 1
  /\ records[2] = <<lead, <<>>>>
  /\ MatchesNone(SubSeq(records, 1, 1), lead)

\* The records the lead matches, on the id or on the email
Matching(recs, l) ==
  {i \in 1..Len(recs) :
     \/ Get(l, "_id") = Get(recs[i][1], "_id")
     \/ Get(l, "email") = Get(recs[i][1], "email")}

\* C14: when a lead matches several records, only the matching record with
\* the lowest index can change; every other record keeps its data and its
\* change-sets.
C14_OnlyFirstMatchChanges ==
  [][(DedupeStep /\ Cardinality(Matching(records, lead')) > 1) =>
       /\ Len(records') = Len(records)
       /\ \A i \in 1..Len(records) :
            (\E j \in Matching(records, lead') : j < i)
              => records'[i] = records[i]
       /\ \A i \in 1..Len(records) :
            i \notin Matching(records, lead') => records'[i] = records[i]]_vars

\* A lead that matches the first record on the id and the second on the email
\* has just been merged into the first; the second still has that email
C14_Witness ==
  /\ pc = "output"
  /\ BeforeLog
  /\ existing = 1
  /\ Len(records) = 2
  /\ Get(lead, "_id") # Undefined
  /\ Get(lead, "email") # Undefined
  /\ Get(records[1][1], "_id") = Get(lead, "_id")
  /\ Get(records[2][1], "_id") # Get(lead, "_id")
  /\ Get(records[2][1], "email") = Get(lead, "email")
  /\ Len(records[1][2]) = 1
  /\ Has(records[1][2][1], "email")
  /\ records[2][2] = <<>>

\* C15: an accepted merge puts exactly one change-set in front of the
\* record's change-sets.  It holds the previous value of exactly those fields
\* of the previous data whose value in the new data differs or is missing;
\* fields only the new data has are not in it, and it is empty when the merge
\* changes nothing.
C15_ChangeSet ==
  [][(DedupeStep /\ IsNewer(records, lead')) =>
       LET i        == FindIndex(records, lead')
           original == records[i][1]
           newData  == records'[i][1]
           changes  == records'[i][2]
       IN /\ Len(changes) = Len(records[i][2]) + 1
          /\ Tail(changes) = records[i][2]
          /\ Keys(Head(changes)) =
               {k \in Keys(original) :
                  ~Has(newData, k) \/ Get(newData, k) # Get(original, k)}
          /\ \A k \in Keys(Head(changes)) :
               Get(Head(changes), k) = Get(original, k)
          /\ Len(Head(changes)) = Cardinality(Keys(Head(changes)))]_vars

\* A merge of a lead that repeats the record's data has just changed
\* nothing, after a merge that changed a field: the change-sets are {} in
\* front of a non-empty one
C15_Witness ==
  /\ pc = "output"
  /\ BeforeLog
  /\ existing = 1
  /\ Len(records[1][2]) = 2
  /\ records[1][2][1] = <<>>
  /\ records[1][2][2] # <<>>
  /\ records[1][1] = lead
  /\ GetTime(Get(lead, "entryDate")) # NaN

\* The entryDate of the field map is no date (or is missing)
Unparsable(data) == GetTime(Get(data, "entryDate")) = NaN

\* C16: a matching lead never overwrites a record when the lead's entryDate
\* or the record's entryDate is unparsable: the step changes nothing.  So a
\* record created from a lead with an unparsable entryDate keeps that lead as
\* its data and has no change-set.
C16_UnparsableNeverOverwrites ==
  [][DedupeStep =>
       /\ (/\ FindIndex(records, lead') > 0
           /\ \/ Unparsable(lead')
              \/ Unparsable(records[FindIndex(records, lead')][1]))
            => records' = records
       /\ \A i \in 1..Len(records') :
            Unparsable(origin'[i][2]) => records'[i] = <<origin'[i][2], <<>>>>]_vars

\* A lead with a later, parsable entryDate has just been discarded against a
\* record created from a lead whose entryDate is no date
C16_Witness ==
  /\ pc = "output"
  /\ BeforeLog
  /\ idx = 2
  /\ existing = 1
  /\ Len(records) = 1
  /\ Get(records[1][1], "entryDate") = "soon"
  /\ GetTime(Get(lead, "entryDate")) = 2
  /\ records[1] = <<origin[1][2], <<>>>>

\* C17: the final report is printed only after both writes have finished, by
\* succeeding or by failing, and once both writes are started it is
\* eventually printed.
C17_ReportAfterBothWrites ==
  /\ [](report # "none" => (wr \in {"ok", "err"} /\ wl \in {"ok", "err"}))
  /\ (wr = "pending" /\ wl = "pending") ~> (report # "none")

\* The error summary is printed after the write of deduped.json failed and
\* the write of deduped.log succeeded
C17_Witness ==
  /\ report = "errors"
  /\ wr = "err"
  /\ wl = "ok"
  /\ files.deduped = <<>>
  /\ files.log # <<>>

\* The parsed entryDate of the field map
EntryTime(data) == GetTime(Get(data, "entryDate"))

\* C18: for a record created from a lead with a parsable entryDate, the
\* parsed entryDate of its data never decreases in the dedup loop, and after
\* every lead it is at least the entryDate of each lead that was merged into
\* the record or discarded against it.
C18_EntryDateNeverDecreases ==
  [][DedupeStep =>
       \A i \in 1..Len(records') :
         ~Unparsable(origin'[i][2]) =>
           /\ EntryTime(records'[i][1]) # NaN
           /\ EntryTime(records'[i][1]) >= latest'[i]
           /\ i <= Len(records) =>
                EntryTime(records'[i][1]) >= EntryTime(records[i][1])]_vars

\* A record created with the earlier entryDate took a merge with the later
\* one, and a lead with the earlier one has just been discarded against it
C18_Witness ==
  /\ pc = "output"
  /\ BeforeLog
  /\ idx = 3
  /\ existing = 1
  /\ EntryTime(origin[1][2]) = 1
  /\ EntryTime(records[1][1]) = 2
  /\ EntryTime(lead) = 1
  /\ Len(records[1][2]) = 1
  /\ latest[1] = 2

\* The records whose data has no value for the key
Lacking(recs, k) == {i \in 1..Len(recs) : Get(recs[i][1], k) = Undefined}

\* The smallest element of a non-empty set of indices
First(indices) == CHOOSE i \in indices : \A j \in indices : i <= j

====
